---- MODULE Spec2Model ----
(***************************************************************************)
(* Model of src/app.py: the Scraper that scans the order books of the      *)
(* prime warframe sets and their parts, computes the arbitrage of every    *)
(* set, filters it against min_arbitrage and prints it as a sorted table.  *)
(*                                                                         *)
(* Three specifications share this module:                                 *)
(*   Spec       the scan: Scraper.run(), called up to twice on the same    *)
(*              upstream order data                                        *)
(*   SpecPrice  get_lowest_price / filter_orders applied to an order list  *)
(*   SpecTable  print_table / sort_table applied to a results dict         *)
(***************************************************************************)
EXTENDS Integers, Sequences, FiniteSets, TLC

VARIABLES
    \* ---- Spec: the scan -------------------------------------------------
    market,            \* upstream: item -> id of the order book it serves
    min_arbitrage,     \* Scraper.min_arbitrage
    run,               \* which call of run() is executing (1 or 2)
    pc,                \* control point inside run()
    wi,                \* index in prime_warframes of the warframe scanned
    pt,                \* index in PartOrder of the part being priced
    retry_amount,      \* local of construct_warframes_prices
    fails,             \* history: consecutive failed attempts on this item
    exc,               \* history: exception caught by the last failed attempt
    warframes_prices,  \* local dict of construct_warframes_prices
    result,            \* warframes_arbitrage returned by this run()
    result1,           \* what the first run() returned
    left_by,           \* history: how the last retry loop was left
    interrupts,        \* history: KeyboardInterrupts raised so far
    signalled,         \* history: a KeyboardInterrupt was raised in this run
    failed_runs,       \* history: the runs in which some attempt failed
    \* ---- SpecPrice ------------------------------------------------------
    orders,            \* parsed['payload']['orders'] of one item
    lowest_price,      \* what get_lowest_price returned (or raised)
    \* ---- SpecTable ------------------------------------------------------
    results,           \* the dict handed to print_table, in insertion order
    printed            \* the rows handed to tabulate, in printed order

scanVars  == <<market, min_arbitrage, run, pc, wi, pt, retry_amount, fails,
               exc, warframes_prices, result, result1, left_by, interrupts,
               signalled, failed_runs>>
priceVars == <<orders, lowest_price>>
tableVars == <<results, printed>>
vars      == <<scanVars, priceVars, tableVars>>

-----------------------------------------------------------------------------
(* Bounds *)

MaxFails      == 4   \* consecutive failed attempts followed on one item
MaxInterrupts == 1   \* KeyboardInterrupts raised in one behaviour
MaxOrders     == 2   \* length of the order lists of SpecPrice
MaxPlatinum   == 2   \* largest platinum price of the orders of SpecPrice
MaxRows       == 3   \* number of records of the dicts of SpecTable
MaxArbitrage  == 2   \* largest arbitrage value of the dicts of SpecTable

(* Program constants *)

RetryLimit == 3      \* "if retry_amount >= 3"
MarketUrl  == "https://warframe.market/items/"

\* values standing for "nothing"
NoResult   == "NoResult"
NoExc      == "NoExc"
IndexError == "IndexError"
EmptyDict  == [k \in {} |-> 0]

-----------------------------------------------------------------------------
(* filter_orders and get_lowest_price *)

\* One order of the payload, with the fields the program could read.
Order(status, platform, order_type, visible, platinum) ==
    [user |-> [status |-> status], platform |-> platform,
     order_type |-> order_type, visible |-> visible, platinum |-> platinum]

\* KeepOrder as it would be without the platform test
KeepOrderAnyPlatform(order) ==
    IF order.user.status # "ingame" THEN FALSE
    ELSE IF order.order_type # "sell" THEN FALSE
    ELSE TRUE

\* the three "continue" tests of filter_orders, in the code's order
KeepOrder(order) ==
    IF order.user.status # "ingame" THEN FALSE
    ELSE IF order.platform # "pc" THEN FALSE
    ELSE IF order.order_type # "sell" THEN FALSE
    ELSE TRUE

filter_orders(os) == SelectSeq(os, KeepOrder)

\* the loop "for order in filtered_orders: if order['platinum'] < lowest_price"
RECURSIVE LowestFrom(_, _, _)
LowestFrom(filtered, i, lowest) ==
    IF i > Len(filtered) THEN lowest
    ELSE LowestFrom(filtered, i + 1,
                    IF filtered[i].platinum < lowest
                    THEN filtered[i].platinum ELSE lowest)

\* What a call ends with: the value returned, or the exception raised.
Returns(v) == [exc |-> NoExc, ret |-> v]
Raises(e)  == [exc |-> e, ret |-> 0]

\* filtered_orders[0] raises IndexError on an empty list
get_lowest_price(os) ==
    LET filtered_orders == filter_orders(os)
    IN  IF Len(filtered_orders) = 0 THEN Raises(IndexError)
        ELSE Returns(LowestFrom(filtered_orders, 1,
                                filtered_orders[1].platinum))

-----------------------------------------------------------------------------
(* The catalog and the upstream market *)

\* assets/prime_warframes.json as loaded by load_prime_warframes
prime_warframes ==
    << [name |-> "Ash Prime",   market_name |-> "ash_prime"],
       [name |-> "Atlas Prime", market_name |-> "atlas_prime"] >>

MarketNames == {prime_warframes[i].market_name : i \in 1..Len(prime_warframes)}

\* the keys of the dict built per warframe, in insertion order
PartOrder == <<"set", "blueprint", "systems", "neuroptics", "chassis">>
PartTypes == {PartOrder[i] : i \in 1..Len(PartOrder)}

\* warframe_name + '_' + part_type, kept as the pair it is built from
ItemName(warframe_name, part_type) == <<warframe_name, part_type>>

construct_warframes_items ==
    [n \in MarketNames |-> [t \in PartTypes |-> ItemName(n, t)]]

Items == {ItemName(n, t) : n \in MarketNames, t \in PartTypes}

\* for loop of market_name_to_name: the first entry that matches, else None
RECURSIVE NameFrom(_, _)
NameFrom(i, market_name) ==
    IF i > Len(prime_warframes) THEN "None"
    ELSE IF prime_warframes[i].market_name = market_name
         THEN prime_warframes[i].name
         ELSE NameFrom(i + 1, market_name)

market_name_to_name(market_name) == NameFrom(1, market_name)

\* The order books the upstream can serve, by id.  Book 0 holds no order that
\* passes filter_orders; book p > 0 holds orders whose lowest retained price
\* is p, next to orders that filter_orders drops.
BookOrders(id) ==
    IF id = 0
    THEN << Order("ingame", "pc", "buy", TRUE, 1),
            Order("offline", "pc", "sell", TRUE, 1) >>
    ELSE << Order("ingame", "pc", "sell", TRUE, id + 1),
            Order("online", "pc", "sell", TRUE, 1),
            Order("ingame", "pc", "sell", TRUE, id),
            Order("ingame", "pc", "buy", TRUE, 1) >>

SetBooks  == {3, 6}         \* books a set's item may be served from
PartBooks == {1, 2}         \* books a part's item may be served from
NoItem    == <<"none", "none">>
\* min_arbitrage is whatever the caller passes; -1 keeps every record
MinArbitrageChoices == {-1, 2, 5}

\* every set is served from sb[n], every part of n from pb[n], except that
\* item e (if any) is served from the book without retained orders
MarketOf(sb, pb, e) ==
    [it \in Items |->
        IF it = e THEN 0
        ELSE IF it[2] = "set" THEN sb[it[1]] ELSE pb[it[1]]]

-----------------------------------------------------------------------------
(* construct_warframes_arbitrage and filter_arbitrage *)

RECURSIVE SumParts(_, _)
\* "for part_type, part_price in ...: if part_type != 'set': total += price"
SumParts(warframe_prices, keys) ==
    IF keys = {} THEN 0
    ELSE LET k == CHOOSE x \in keys : TRUE
         IN  (IF k # "set" THEN warframe_prices[k] ELSE 0)
             + SumParts(warframe_prices, keys \ {k})

\* the signed difference, as it would be without the two branches
SignedArbitrage(total_parts_price, set_price) == set_price - total_parts_price

\* lines 189-192: which way round the difference is taken
Arbitrage(total_parts_price, set_price) ==
    IF total_parts_price >= set_price
    THEN total_parts_price - set_price
    ELSE set_price - total_parts_price

\* the record built for one warframe (lines 180-198)
ArbitrageRecord(warframe_name, warframe_prices) ==
    LET total_parts_price == SumParts(warframe_prices, DOMAIN warframe_prices)
    IN  [arbitrage    |-> Arbitrage(total_parts_price, warframe_prices["set"]),
         parts_price  |-> total_parts_price,
         set_price    |-> warframe_prices["set"],
         market_url   |-> <<MarketUrl, warframe_name>>,
         display_name |-> market_name_to_name(warframe_name)]

\* the filter as its comment words it ("arbitrage > min_arbitrage"): a
\* record equal to min_arbitrage would be dropped too
KeepArbitrageStrict(warframe_arbitrage, min) ==
    ~(warframe_arbitrage.arbitrage <= min)

\* "if warframe_arbitrage['arbitrage'] < self.min_arbitrage: continue"
KeepArbitrage(warframe_arbitrage, min) ==
    ~(warframe_arbitrage.arbitrage < min)

filter_arbitrage(warframes_arbitrage, min) ==
    LET kept == {n \in DOMAIN warframes_arbitrage :
                    KeepArbitrage(warframes_arbitrage[n], min)}
    IN  [n \in kept |-> warframes_arbitrage[n]]

\* warframe_prices['set'] raises KeyError when the set's price is missing
ArbitrageRaises(prices) ==
    \E n \in DOMAIN prices : "set" \notin DOMAIN prices[n]

construct_warframes_arbitrage(prices, min) ==
    filter_arbitrage([n \in DOMAIN prices |-> ArbitrageRecord(n, prices[n])],
                     min)

-----------------------------------------------------------------------------
(* Scraper.run: construct_warframes_prices, then construct_warframes_arbitrage *)

warframe_name == prime_warframes[wi].market_name
part_type     == PartOrder[pt]
part_name     == construct_warframes_items[warframe_name][part_type]

\* what self.get_lowest_price(part_name) computes from the item's order book
Quote(item) == get_lowest_price(BookOrders(market[item]))

\* the counter as it would be if an attempt did not reset it
KeepRetryAmount == retry_amount

\* "retry_amount = 0", the first statement of every attempt (line 148)
ResetRetryAmount == 0

\* the exceptions an attempt can end with, next to a KeyboardInterrupt:
\* urlopen failing (URLError, or HTTPError for a 404 or 429 answer),
\* filtered_orders[0] on an empty list, and the store into
\* warframes_prices[warframe_name] after that key was popped
Raised ==
    {"URLError"}
    \cup (IF Quote(part_name).exc # NoExc THEN {Quote(part_name).exc}
          ELSE IF warframe_name \notin DOMAIN warframes_prices
               THEN {"KeyError"} ELSE {})

\* leaving the while loop: the for loop goes to the next part, or to the
\* progress counter after the last part
NextPart ==
    IF pt < Len(PartOrder)
    THEN pt' = pt + 1 /\ pc' = "fetch"
    ELSE pt' = pt /\ pc' = "progress"

\* run() is entered: construct_warframes_items, then the first warframe
EnterRun ==
    /\ pc' = "fetch"
    /\ wi' = 1
    /\ pt' = 1
    /\ retry_amount' = 0
    /\ fails' = 0
    /\ exc' = NoExc
    /\ left_by' = "none"
    /\ signalled' = FALSE
    /\ warframes_prices' = (prime_warframes[1].market_name :> EmptyDict)
    /\ result' = NoResult

Run ==
    /\ pc = "idle"
    /\ EnterRun
    /\ UNCHANGED <<market, min_arbitrage, run, result1, interrupts>>
    /\ UNCHANGED <<failed_runs, priceVars, tableVars>>

\* a second call of run() after the first returned, on the same upstream
RunAgain ==
    /\ pc = "done"
    /\ run = 1
    /\ run' = 2
    /\ result1' = result
    /\ EnterRun
    /\ UNCHANGED <<market, min_arbitrage, interrupts>>
    /\ UNCHANGED <<failed_runs, priceVars, tableVars>>

\* lines 148-150: the attempt succeeds, the price is stored, break
FetchOk ==
    /\ pc = "fetch"
    /\ Quote(part_name).exc = NoExc
    /\ warframe_name \in DOMAIN warframes_prices
    /\ warframes_prices' =
          [warframes_prices EXCEPT
              ![warframe_name] = (part_type :> Quote(part_name).ret) @@ @]
    /\ retry_amount' = ResetRetryAmount
    /\ fails' = 0
    /\ exc' = NoExc
    /\ left_by' = "success"
    /\ NextPart
    /\ UNCHANGED <<market, min_arbitrage, run, wi, result, result1,
                   interrupts, signalled>>
    /\ UNCHANGED <<failed_runs, priceVars, tableVars>>

\* lines 148-149 and 153-164: the attempt raises, the bare except counts it
FetchFail ==
    /\ pc = "fetch"
    /\ fails < MaxFails
    /\ failed_runs' = failed_runs \cup {run}
    /\ \E e \in Raised :
          LET r == ResetRetryAmount + 1
          IN  IF r >= RetryLimit
              THEN /\ warframes_prices' =
                         [n \in DOMAIN warframes_prices \ {warframe_name}
                             |-> warframes_prices[n]]
                   /\ retry_amount' = r
                   /\ fails' = 0
                   /\ exc' = NoExc
                   /\ left_by' = "give_up"
                   /\ NextPart
              ELSE /\ retry_amount' = r
                   /\ fails' = fails + 1
                   /\ exc' = e
                   /\ pc' = "backoff"
                   /\ UNCHANGED <<pt, warframes_prices, left_by>>
    /\ UNCHANGED <<market, min_arbitrage, run, wi, result, result1,
                   interrupts, signalled>>
    /\ UNCHANGED <<priceVars, tableVars>>

\* lines 151-152: KeyboardInterrupt inside the attempt, break
FetchInterrupt ==
    /\ pc = "fetch"
    /\ interrupts < MaxInterrupts
    /\ interrupts' = interrupts + 1
    /\ signalled' = TRUE
    /\ retry_amount' = ResetRetryAmount
    /\ fails' = 0
    /\ exc' = NoExc
    /\ left_by' = "interrupt"
    /\ NextPart
    /\ UNCHANGED <<market, min_arbitrage, run, wi, warframes_prices, result,
                   result1>>
    /\ UNCHANGED <<failed_runs, priceVars, tableVars>>

\* lines 163-164: time.sleep(1.5) returns, continue
Backoff ==
    /\ pc = "backoff"
    /\ pc' = "fetch"
    /\ UNCHANGED <<market, min_arbitrage, run, wi, pt, retry_amount, fails,
                   exc, warframes_prices, result, result1, left_by,
                   interrupts, signalled>>
    /\ UNCHANGED <<failed_runs, priceVars, tableVars>>

\* KeyboardInterrupt during time.sleep(1.5): raised inside the except clause,
\* no handler catches it and it propagates out of run()
BackoffInterrupt ==
    /\ pc = "backoff"
    /\ interrupts < MaxInterrupts
    /\ interrupts' = interrupts + 1
    /\ signalled' = TRUE
    /\ exc' = "KeyboardInterrupt"
    /\ left_by' = "sleep_interrupt"
    /\ pc' = "raised"
    /\ UNCHANGED <<market, min_arbitrage, run, wi, pt, retry_amount, fails,
                   warframes_prices, result, result1>>
    /\ UNCHANGED <<failed_runs, priceVars, tableVars>>

\* lines 167-169 and 141-143: progress counter, sleep, next warframe
Progress ==
    /\ pc = "progress"
    /\ IF wi < Len(prime_warframes)
       THEN /\ wi' = wi + 1
            /\ pt' = 1
            /\ pc' = "fetch"
            /\ warframes_prices' =
                  (prime_warframes[wi + 1].market_name :> EmptyDict)
                  @@ warframes_prices
       ELSE /\ pc' = "arbitrage"
            /\ UNCHANGED <<wi, pt, warframes_prices>>
    /\ UNCHANGED <<market, min_arbitrage, run, retry_amount, fails, exc,
                   result, result1, left_by, interrupts, signalled>>
    /\ UNCHANGED <<failed_runs, priceVars, tableVars>>

\* KeyboardInterrupt during time.sleep(.5): outside every try, propagates
ProgressInterrupt ==
    /\ pc = "progress"
    /\ interrupts < MaxInterrupts
    /\ interrupts' = interrupts + 1
    /\ signalled' = TRUE
    /\ exc' = "KeyboardInterrupt"
    /\ pc' = "raised"
    /\ UNCHANGED <<market, min_arbitrage, run, wi, pt, retry_amount, fails,
                   warframes_prices, result, result1, left_by>>
    /\ UNCHANGED <<failed_runs, priceVars, tableVars>>

\* line 56 and lines 60-63: the arbitrage dict is built, written and returned,
\* or warframe_prices['set'] raises KeyError out of run()
ComputeArbitrage ==
    /\ pc = "arbitrage"
    /\ IF ArbitrageRaises(warframes_prices)
       THEN /\ pc' = "raised"
            /\ exc' = "KeyError"
            /\ UNCHANGED result
       ELSE /\ pc' = "done"
            /\ result' = construct_warframes_arbitrage(warframes_prices,
                                                       min_arbitrage)
            /\ UNCHANGED exc
    /\ UNCHANGED <<market, min_arbitrage, run, wi, pt, retry_amount, fails,
                   warframes_prices, result1, left_by, interrupts, signalled>>
    /\ UNCHANGED <<failed_runs, priceVars, tableVars>>

\* get_lowest_price, print_table not called (yet)
NotCalled  == Raises(NoResult)
NotPrinted == <<"not printed">>

PriceIdle == orders = <<>> /\ lowest_price = NotCalled
TableIdle == results = <<>> /\ printed = NotPrinted

Init ==
    /\ \E sb \in [MarketNames -> SetBooks], pb \in [MarketNames -> PartBooks],
          e \in Items \cup {NoItem} :
          market = MarketOf(sb, pb, e)
    /\ min_arbitrage \in MinArbitrageChoices
    /\ run = 1
    /\ pc = "idle"
    /\ wi = 1
    /\ pt = 1
    /\ retry_amount = 0
    /\ fails = 0
    /\ exc = NoExc
    /\ warframes_prices = EmptyDict
    /\ result = NoResult
    /\ result1 = NoResult
    /\ left_by = "none"
    /\ interrupts = 0
    /\ signalled = FALSE
    /\ failed_runs = {}
    /\ PriceIdle
    /\ TableIdle

Next ==
    \/ Run
    \/ RunAgain
    \/ FetchOk
    \/ FetchFail
    \/ FetchInterrupt
    \/ Backoff
    \/ BackoffInterrupt
    \/ Progress
    \/ ProgressInterrupt
    \/ ComputeArbitrage

Spec == Init /\ [][Next]_vars

-----------------------------------------------------------------------------
(* Properties of the scan, checked under Spec *)

Abs(x) == IF x < 0 THEN 0 - x ELSE x

\* all five prices of warframe n were obtained by this run
FullyPriced(n) ==
    /\ n \in DOMAIN warframes_prices
    /\ DOMAIN warframes_prices[n] = PartTypes

PartsTotal(n) ==
    warframes_prices[n]["blueprint"] + warframes_prices[n]["systems"]
    + warframes_prices[n]["neuroptics"] + warframes_prices[n]["chassis"]

Returned == pc = "done"

\* C1: a set of which the set price or a part price was not obtained has no
\* record in the result of run(); every record comes from all five prices.
C1_NoRecordFromPartialPrices ==
    Returned => \A n \in DOMAIN result : FullyPriced(n)

\* C2 as claimed: every record's arbitrage is the signed difference
\* set_price - parts_price.
C2_SignedDifference ==
    Returned =>
        \A n \in DOMAIN result :
            result[n].arbitrage = result[n].set_price - result[n].parts_price

\* C2 as amended: every record's arbitrage is the absolute difference of its
\* set_price and parts_price (parts_price - set_price when the parts cost at
\* least the set), where set_price is the set's price and parts_price the sum
\* of the part prices obtained.
C2_AbsoluteDifference ==
    Returned =>
        \A n \in DOMAIN result :
            /\ result[n].arbitrage =
                  Abs(result[n].set_price - result[n].parts_price)
            /\ result[n].set_price = warframes_prices[n]["set"]
            /\ FullyPriced(n) => result[n].parts_price = PartsTotal(n)

\* a record whose parts cost more than the set was returned
C2_Witness ==
    /\ Returned
    /\ \E n \in DOMAIN result :
          FullyPriced(n) /\ result[n].parts_price > result[n].set_price

C4_RetryBudget ==
    ~(pc = "backoff" /\ fails >= RetryLimit)

\* C5: an item without an order that passes filter_orders is not retried: the
\* attempt that found the order book empty is not followed by the back-off.
C5_AbsenceNotRetried ==
    ~(pc = "backoff" /\ exc = IndexError)

\* C7: once a KeyboardInterrupt was raised in a scan, no price fetch is
\* started any more (control never stands at a get_lowest_price call again).
C7_NoFetchAfterSignal ==
    signalled => pc # "fetch"

C10_LeftBySuccessOrInterruptOnly ==
    /\ retry_amount <= 1
    /\ left_by \in {"none", "success", "interrupt"}

\* C10 as amended: retry_amount never exceeds 1, the give-up branch is never
\* taken, and the retry loop is left only by a successful fetch, by a
\* KeyboardInterrupt inside the attempt, or by a KeyboardInterrupt during the
\* back-off sleep, which propagates out of run().
C10_NeverGivesUp ==
    /\ retry_amount <= 1
    /\ left_by \in {"none", "success", "interrupt", "sleep_interrupt"}

\* more failures in a row than the limit, and the counter still stands at 1
C10_Witness ==
    /\ pc = "backoff"
    /\ fails > RetryLimit
    /\ retry_amount = 1

-----------------------------------------------------------------------------
(* SpecPrice: get_lowest_price applied to one item's order list *)

ScanIdle ==
    /\ market = [it \in Items |-> 0]
    /\ min_arbitrage = 0
    /\ run = 1
    /\ pc = "idle"
    /\ wi = 1
    /\ pt = 1
    /\ retry_amount = 0
    /\ fails = 0
    /\ exc = NoExc
    /\ warframes_prices = EmptyDict
    /\ result = NoResult
    /\ result1 = NoResult
    /\ left_by = "none"
    /\ interrupts = 0
    /\ signalled = FALSE
    /\ failed_runs = {}

\* the orders an item's payload may list
OrderSet ==
    {Order(st, pf, ot, vis, pl) :
        st \in {"ingame", "offline"}, pf \in {"pc", "xbox"},
        ot \in {"sell", "buy"}, vis \in BOOLEAN, pl \in 1..MaxPlatinum}

OrderLists == UNION {[1..n -> OrderSet] : n \in 0..MaxOrders}

InitPrice ==
    /\ orders \in OrderLists
    /\ lowest_price = NotCalled
    /\ ScanIdle
    /\ TableIdle

\* lines 104-113 on the payload received
GetLowestPrice ==
    /\ lowest_price = NotCalled
    /\ lowest_price' = get_lowest_price(orders)
    /\ UNCHANGED <<orders, scanVars, tableVars>>

NextPrice == GetLowestPrice

SpecPrice == InitPrice /\ [][NextPrice]_vars

OrdersWhere(P(_)) == {i \in 1..Len(orders) : P(orders[i])}

MinPlatinum(idx) ==
    CHOOSE m \in {orders[i].platinum : i \in idx} :
        \A i \in idx : m <= orders[i].platinum

\* the three filters as the claim names them
SellVisibleIngame(o) ==
    o.order_type = "sell" /\ o.visible /\ o.user.status = "ingame"

\* the three filters of filter_orders
SellPcIngame(o) ==
    o.order_type = "sell" /\ o.platform = "pc" /\ o.user.status = "ingame"

\* C6 as claimed: when some order is sell-side, visible and placed by an
\* in-game seller, get_lowest_price returns the minimum platinum over exactly
\* those orders.
C6_MinOverSellVisibleIngame ==
    (lowest_price # NotCalled /\ OrdersWhere(SellVisibleIngame) # {}) =>
        lowest_price = Returns(MinPlatinum(OrdersWhere(SellVisibleIngame)))

\* C6 as amended: when some order is sell-side, on platform pc and placed by
\* an in-game seller, get_lowest_price returns the minimum platinum over
\* exactly those orders, whether they are visible or not; an order failing any
\* of these three tests never affects the price.
C6_MinOverSellPcIngame ==
    (lowest_price # NotCalled /\ OrdersWhere(SellPcIngame) # {}) =>
        lowest_price = Returns(MinPlatinum(OrdersWhere(SellPcIngame)))

\* a price was returned although a cheaper order was listed that fails a test
C6_Witness ==
    /\ lowest_price # NotCalled
    /\ OrdersWhere(SellPcIngame) # {}
    /\ \E i \in 1..Len(orders) :
          /\ ~SellPcIngame(orders[i])
          /\ orders[i].platinum < lowest_price.ret

-----------------------------------------------------------------------------
(* SpecTable: print_table applied to the dict run() returned *)

\* the warframes the records of a result may belong to, in slug order
TableCatalog ==
    << [name |-> "Ash Prime",     market_name |-> "ash_prime"],
       [name |-> "Atlas Prime",   market_name |-> "atlas_prime"],
       [name |-> "Banshee Prime", market_name |-> "banshee_prime"],
       [name |-> "Chroma Prime",  market_name |-> "chroma_prime"] >>

\* the record of warframe k with arbitrage a (its parts cost 4)
TableRecord(k, a) ==
    [market_name |-> TableCatalog[k].market_name,
     data |-> [arbitrage    |-> a,
               parts_price  |-> 4,
               set_price    |-> 4 + a,
               market_url   |-> <<MarketUrl, TableCatalog[k].market_name>>,
               display_name |-> TableCatalog[k].name]]

\* the dicts run() can return: distinct keys in any insertion order
ResultDicts ==
    UNION {
      { [i \in 1..n |-> TableRecord(ks[i], as[i])] :
          ks \in {f \in [1..n -> 1..Len(TableCatalog)] :
                    \A i, j \in 1..n : i # j => f[i] # f[j]},
          as \in [1..n -> 0..MaxArbitrage] }
      : n \in 0..MaxRows }

\* lines 32-39: one row per item of the dict
TableRow(item) ==
    << item.data.display_name, item.data.arbitrage, item.data.set_price,
       item.data.parts_price, item.data.market_url >>

\* sorted(table, key=lambda x: x[index]) is stable: a row goes behind every
\* row already placed whose key is not greater (index counts from 0)
RECURSIVE InsertRow(_, _, _)
InsertRow(row, placed, index) ==
    IF placed = <<>> THEN <<row>>
    ELSE IF row[index + 1] < placed[Len(placed)][index + 1]
         THEN Append(InsertRow(row, SubSeq(placed, 1, Len(placed) - 1), index),
                     placed[Len(placed)])
         ELSE Append(placed, row)

RECURSIVE SortFrom(_, _, _, _)
SortFrom(table, i, placed, index) ==
    IF i > Len(table) THEN placed
    ELSE SortFrom(table, i + 1, InsertRow(table[i], placed, index), index)

sort_table(table, index) == SortFrom(table, 1, <<>>, index)

reversed(seq) == [i \in 1..Len(seq) |-> seq[Len(seq) + 1 - i]]

\* print_table as it would be without reversed()
print_table_unreversed(res) ==
    sort_table([i \in 1..Len(res) |-> TableRow(res[i])], 1)

\* lines 29-41: the rows handed to tabulate
print_table(res) ==
    reversed(sort_table([i \in 1..Len(res) |-> TableRow(res[i])], 1))

InitTable ==
    /\ results \in ResultDicts
    /\ printed = NotPrinted
    /\ ScanIdle
    /\ PriceIdle

PrintTable ==
    /\ printed = NotPrinted
    /\ printed' = print_table(results)
    /\ UNCHANGED <<results, scanVars, priceVars>>

NextTable == PrintTable

SpecTable == InitTable /\ [][NextTable]_vars

\* position of a slug in lexicographic order, read off the row's market URL
SlugRank(row) ==
    CHOOSE k \in 1..Len(TableCatalog) :
        TableCatalog[k].market_name = row[5][2]

\* position in the dict (the scan order) of the record a row was built from
ScanPosition(row) ==
    CHOOSE i \in 1..Len(results) : TableRow(results[i]) = row

IsPrinted == printed # NotPrinted

\* C8 as claimed: the printed rows are in descending order of arbitrage, and
\* rows of equal arbitrage are in ascending order of slug.
C8_TiesBySlugAscending ==
    IsPrinted =>
        \A i, j \in 1..Len(printed) :
            i < j =>
               \/ printed[i][2] > printed[j][2]
               \/ /\ printed[i][2] = printed[j][2]
                  /\ SlugRank(printed[i]) < SlugRank(printed[j])

\* C8 as amended: the printed rows are the rows of the dict in descending
\* order of arbitrage, and rows of equal arbitrage are in the reverse of the
\* order in which their sets were scanned (inserted into the dict).
C8_TiesInReverseScanOrder ==
    IsPrinted =>
        /\ Len(printed) = Len(results)
        /\ \A i \in 1..Len(results) :
              \E j \in 1..Len(printed) : printed[j] = TableRow(results[i])
        /\ \A i, j \in 1..Len(printed) :
              i < j =>
                 \/ printed[i][2] > printed[j][2]
                 \/ /\ printed[i][2] = printed[j][2]
                    /\ ScanPosition(printed[i]) > ScanPosition(printed[j])

\* a table was printed in which two rows have the same arbitrage
C8_Witness ==
    /\ IsPrinted
    /\ \E i, j \in 1..Len(printed) :
          i # j /\ printed[i][2] = printed[j][2]

====
